---- MODULE Spec2Model ----
(***************************************************************************)
(* Ventana BigTIFF detection (src/src/openslide-vendor-ventana.c).         *)
(*                                                                         *)
(* _openslide_try_ventana walks the directories of an open TIFF, registers *)
(* directories 0 and 1 as label and thumbnail, accumulates the directories *)
(* whose ImageDescription carries a level token, sorts them by width and   *)
(* hands the directory array to the generic TIFF backend.                  *)
(*                                                                         *)
(* Two calls on the same file are modelled side by side: run "sinks" is    *)
(* called with an openslide_t (osr != NULL), run "detect" with osr == NULL.*)
(* Both read the same directories: the directory under the read head is    *)
(* ifd, and every TIFFReadDirectory draws the tags of the next one.        *)
(***************************************************************************)
EXTENDS Integers, Sequences, FiniteSets, TLC

\* ------------------------------------------------------------ bounds
MaxDirs == 4     \* directories in the file
MaxWidth == 2    \* ImageWidth values 1..MaxWidth

\* ------------------------------------------------------------ values
\* A tag (or a nullable pointer) is <<>> when absent and <<v>> when present.
Absent == <<>>
Has(t) == t # <<>>
Val(t) == t[1]

Runs == {"sinks", "detect"}
\* osr: the openslide_t handle of a run; NULL in detection-only mode
osr(r) == r = "sinks"

WhiteSpace == {" "}
Quotes == {"\"", "'"}

LevelKey == <<"l", "e", "v", "e", "l">>

\* ImageDescription texts the directories may carry
Descs ==
  { <<"L", "a", "b", "e", "l">>,
    LevelKey \o <<"=", "0">>,
    LevelKey \o <<"=", "1">> }

\* TIFFIsCODECConfigured(compression)
Compressions == {"supported", "unsupported"}

\* iScan elements: the attributes they carry
EmptyNode == [a \in {} |-> "20"]
MagNode == [a \in {"Magnification"} |-> "40"]
FullNode ==
  [a \in {"Magnification", "ScanRes"} |->
     IF a = "Magnification" THEN "20" ELSE "0.25"]

\* the node sets /EncodeInfo/SlideInfo/iScan can select: none, one, several
IScanLists == { <<>>, <<MagNode>>, <<FullNode>>, <<FullNode, EmptyNode>> }

\* XMLPacket contents: marker = the text contains "<iScan"; wellFormed =
\* xmlReadMemory returns a document; iScan = the nodes the XPath selects.
\* An element the XPath selects is spelled "<iScan" in the text.
XmlPackets ==
  { x \in [marker : BOOLEAN, wellFormed : BOOLEAN, iScan : IScanLists] :
      /\ (~x.wellFormed => x.iScan = <<>> /\ x.marker)
      /\ (x.iScan # <<>> => x.marker) }

\* the tags of one TIFF directory
DirTags ==
  [ tiled : BOOLEAN,
    width : {Absent} \cup { <<w>> : w \in 1..MaxWidth },
    desc : {Absent} \cup { <<d>> : d \in Descs },
    compression : {Absent} \cup { <<c>> : c \in Compressions },
    xml : {Absent} \cup { <<x>> : x \in XmlPackets } ]

\* ------------------------------------------------------------ state
VARIABLES
  ifd,   \* the directory under the read head: [index, tags]
  run    \* per call: locals of _openslide_try_ventana and the caller's sinks

vars == <<ifd, run>>

EmptyMap == [k \in {} |-> ""]
\* g_hash_table_insert
Insert(ht, k, v) == [x \in (DOMAIN ht) \cup {k} |-> IF x = k THEN v ELSE ht[x]]

\* ------------------------------------------------------------ find_property
IsPrefixAt(s, p, i) ==
  /\ i >= 1
  /\ i + Len(p) - 1 <= Len(s)
  /\ SubSeq(s, i, i + Len(p) - 1) = p

SetMin(S) == CHOOSE x \in S : \A y \in S : x <= y

\* The text g_regex_match selects at start position i, <<>> when the pattern
\* does not match there.  G_REGEX_UNGREEDY makes every quantifier lazy:
\* (\S+) takes one character, (.*) stops at the first closing quote.
MatchAt(s, prop_name, quotes, i) ==
  LET head == prop_name \o <<"=">>
      n == Len(head)
  IN  IF ~IsPrefixAt(s, head, i) THEN <<>>
      ELSE IF quotes
        THEN LET closers == { j \in (i + n + 1)..Len(s) : s[j] \in Quotes }
             IN  IF i + n <= Len(s) /\ s[i + n] \in Quotes /\ closers # {}
                   THEN SubSeq(s, i, SetMin(closers))
                   ELSE <<>>
        ELSE IF i + n <= Len(s) /\ s[i + n] \notin WhiteSpace
               THEN SubSeq(s, i, i + n)
               ELSE <<>>

\* find_property: [status, prop_value]; prop_value is
\* g_match_info_fetch(props_match, 0), the whole text of the leftmost match.
find_property(string_to_parse, prop_name, quotes) ==
  LET starts == { i \in 1..Len(string_to_parse) :
                    MatchAt(string_to_parse, prop_name, quotes, i) # <<>> }
  IN  IF starts = {}
        THEN [status |-> FALSE, prop_value |-> <<>>]
        ELSE [status |-> TRUE,
              prop_value |-> MatchAt(string_to_parse, prop_name, quotes,
                                     SetMin(starts))]

\* ------------------------------------------------------------ XML metadata
\* eval_xpath(VENTANA_ISCAN, context): NULL (<<>>) if no matches
eval_xpath(doc) == doc.iScan

\* set_prop_from_attribute: copies the attribute of nodeTab[0] when the call
\* has an osr and the attribute exists
set_prop_from_attribute(has_osr, properties, property_name, attribute_name, doc) ==
  LET result == eval_xpath(doc)
  IN  IF result # <<>> /\ has_osr /\ attribute_name \in DOMAIN result[1]
        THEN Insert(properties, property_name, result[1][attribute_name])
        ELSE properties

\* the set_prop_from_attribute calls of parse_xml_description, in order
AttrProps ==
  << <<"ventana.magnification", "Magnification">>,
     <<"ventana.resolution", "ScanRes">>,
     <<"ventana.device-model", "UnitNumber">>,
     <<"ventana.build-version", "BuildVersion">>,
     <<"ventana.build-date", "BuildDate">>,
     <<"ventana.slide-annotation", "SlideAnnotation">>,
     <<"ventana.show-label", "ShowLabel">>,
     <<"ventana.label-boundary", "LabelBoundary">>,
     <<"ventana.z-layers", "Z-layers">>,
     <<"ventana.z-spacing", "Z-spacing">>,
     <<"ventana.focus-mode", "FocusMode">>,
     <<"ventana.focus-quality", "FocusQuality">>,
     <<"ventana.scan-mode", "ScanMode">> >>

RECURSIVE SetAttrProps(_, _, _, _)
SetAttrProps(has_osr, properties, doc, i) ==
  IF i > Len(AttrProps) THEN properties
  ELSE SetAttrProps(has_osr,
                    set_prop_from_attribute(has_osr, properties,
                                            AttrProps[i][1], AttrProps[i][2], doc),
                    doc, i + 1)

\* g_ascii_strtoll / g_ascii_strtod followed by formatting, on the attribute
\* texts of the model
IntText(v) == IF v = "0.25" THEN "0" ELSE v
DoubleText(v) == v

\* _openslide_duplicate_int_prop
DuplicateIntProp(ht, src, dest) ==
  IF src \in DOMAIN ht THEN Insert(ht, dest, IntText(ht[src])) ELSE ht

\* _openslide_duplicate_double_prop
DuplicateDoubleProp(ht, src, dest) ==
  IF src \in DOMAIN ht THEN Insert(ht, dest, DoubleText(ht[src])) ELSE ht

\* parse_xml_description: [success, err, properties]
parse_xml_description(xml, has_osr, properties) ==
  IF ~xml.wellFormed
    THEN [success |-> FALSE, err |-> "FORMAT_NOT_SUPPORTED",
          properties |-> properties]
  ELSE LET result == eval_xpath(xml)
       IN  IF result = <<>> \/ Len(result) # 1
             THEN [success |-> FALSE, err |-> "BAD_DATA",
                   properties |-> properties]
           ELSE LET p1 == SetAttrProps(has_osr, properties, xml, 1)
                    p2 == DuplicateIntProp(p1, "ventana.magnification",
                                           "openslide.objective-power")
                    p3 == DuplicateDoubleProp(p2, "ventana.resolution",
                                              "openslide.mpp-x")
                    p4 == DuplicateDoubleProp(p3, "ventana.resolution",
                                              "openslide.mpp-y")
                IN  [success |-> TRUE, err |-> "none",
                     properties |-> IF has_osr THEN p4 ELSE p1]

\* ------------------------------------------------------------ level order
\* width_compare with the two results exchanged: ascending widths
width_compare_ascending(la, lb) ==
  IF la.width > lb.width THEN 1
  ELSE IF la.width = lb.width THEN 0
  ELSE -1

\* width_compare: -1, 0 or 1
width_compare(la, lb) ==
  IF la.width > lb.width THEN -1
  ELSE IF la.width = lb.width THEN 0
  ELSE 1

\* g_list_sort_merge: takes from l1 while compare(l1, l2) <= 0
RECURSIVE g_list_sort_merge(_, _)
g_list_sort_merge(l1, l2) ==
  IF l1 = <<>> THEN l2
  ELSE IF l2 = <<>> THEN l1
  ELSE IF width_compare(Head(l1), Head(l2)) <= 0
    THEN <<Head(l1)>> \o g_list_sort_merge(Tail(l1), l2)
    ELSE <<Head(l2)>> \o g_list_sort_merge(l1, Tail(l2))

\* g_list_sort(level_list, width_compare): merge sort, halves split at n / 2
RECURSIVE g_list_sort(_)
g_list_sort(list) ==
  IF Len(list) <= 1 THEN list
  ELSE LET h == Len(list) \div 2
       IN  g_list_sort_merge(g_list_sort(SubSeq(list, 1, h)),
                             g_list_sort(SubSeq(list, h + 1, Len(list))))

\* ------------------------------------------------------------ associated images
\* FixedSlot without the dir == 1 filter: the thumbnail directory goes on
\* to level classification
FixedSlotLabelOnly(dir) ==
  IF dir = 0 THEN <<"label">> ELSE <<>>

\* dir == 0 is the label, dir == 1 the thumbnail: the name passed to
\* add_associated_image, <<>> for every other directory
FixedSlot(dir) ==
  IF dir = 0 THEN <<"label">>
  ELSE IF dir = 1 THEN <<"thumbnail">>
  ELSE <<>>

\* add_associated_image(ht, name_if_available, tiff, err): [result, ht].
\* assoc_ok is what _openslide_add_tiff_associated_image returns for the
\* current directory; it inserts the name when it succeeds and ht != NULL.
add_associated_image(ht, has_ht, name_if_available, tags, assoc_ok) ==
  LET name == IF Has(name_if_available) THEN name_if_available ELSE tags.desc
  IN  IF ~Has(name) THEN [result |-> TRUE, ht |-> ht]
      ELSE [result |-> assoc_ok,
            ht |-> IF assoc_ok /\ has_ht THEN ht \cup {Val(name)} ELSE ht]

\* ------------------------------------------------------------ one call
InitRun ==
  [ pc |-> "entry",
    dir |-> 0,                     \* TIFFCurrentDirectory(tiff)
    properties |-> EmptyMap,       \* osr->properties (caller's)
    associated_images |-> {},      \* osr->associated_images (caller's)
    level_list |-> <<>>,
    level_count |-> 0,
    levels |-> <<>>,
    err |-> "none",
    result |-> "pending",          \* "true", "false", or "crash"
    handoff |-> <<>>,              \* arguments of _openslide_add_tiff_ops
    markerChecks |-> 0,            \* times the "<iScan" check ran
    xmlParses |-> 0,               \* times parse_xml_description ran
    accumulated |-> {} ]           \* every struct level pushed

\* Fail that also takes back the associated images the call registered
FailRollback(s, e) ==
  [s EXCEPT !.pc = "done", !.result = "false", !.err = e, !.level_list = <<>>,
            !.associated_images = {}]

\* goto FAIL: the level list is freed and false is returned; nothing the
\* call put into the sinks is taken back
Fail(s, e) ==
  [s EXCEPT !.pc = "done", !.result = "false", !.err = e, !.level_list = <<>>]

\* while (TIFFReadDirectory(tiff)), also the target of every continue
ReadDirectory(s, more) ==
  IF more THEN [s EXCEPT !.dir = s.dir + 1] ELSE [s EXCEPT !.pc = "sort"]

\* TryVentanaEntry with the vendor property inserted ahead of the tiled check
TryVentanaEntryVendorFirst(s, has_osr, tags) ==
  LET named == [s EXCEPT !.properties =
                           IF has_osr
                             THEN Insert(@, "openslide.vendor", "ventana")
                             ELSE @]
  IN  IF ~tags.tiled
        THEN [named EXCEPT !.pc = "done", !.result = "false",
                           !.err = "FORMAT_NOT_SUPPORTED"]
        ELSE [named EXCEPT !.pc = "walk"]

\* the TIFFIsTiled check on entry and the vendor property
TryVentanaEntry(s, has_osr, tags) ==
  IF ~tags.tiled THEN Fail(s, "FORMAT_NOT_SUPPORTED")
  ELSE [s EXCEPT !.pc = "walk",
                 !.properties = IF has_osr
                                  THEN Insert(@, "openslide.vendor", "ventana")
                                  ELSE @]

\* the compression checks of a level directory: "none" or the error
CheckCompression(tags) ==
  IF ~Has(tags.compression) THEN "BAD_DATA"
  ELSE IF Val(tags.compression) # "supported" THEN "BAD_DATA"
  ELSE "none"

\* strcmp(level_value, "0") == 0
IsLevelZero(level_value) == level_value = <<"0">>

\* the level=0 block: marker check, then parse_xml_description
ConfirmLevel0(s, has_osr, tags) ==
  LET status == Has(tags.xml)
      checked == [s EXCEPT !.markerChecks = @ + 1]
  IN  IF ~status \/ ~Val(tags.xml).marker
        THEN Fail(checked, "FORMAT_NOT_SUPPORTED")
      ELSE LET parsed == parse_xml_description(Val(tags.xml), has_osr, s.properties)
               counted == [checked EXCEPT !.xmlParses = @ + 1,
                                          !.properties = parsed.properties]
           IN  IF ~parsed.success THEN Fail(counted, parsed.err) ELSE counted

\* push into list: g_list_prepend and level_count++
PushLevel(s, width) ==
  LET l == [directory |-> s.dir, width |-> width]
  IN  [s EXCEPT !.level_list = <<l>> \o @,
                !.level_count = @ + 1,
                !.accumulated = @ \cup {l}]

\* the classification of a directory that is neither label nor thumbnail
ClassifyLevel(s, has_osr, tags, more) ==
  IF ~Has(tags.desc) THEN ReadDirectory(s, more)
  ELSE LET found == find_property(Val(tags.desc), LevelKey, FALSE)
       IN  IF ~found.status THEN ReadDirectory(s, more)
           ELSE IF CheckCompression(tags) # "none"
             THEN Fail(s, CheckCompression(tags))
           ELSE LET confirmed == IF IsLevelZero(found.prop_value)
                                   THEN ConfirmLevel0(s, has_osr, tags)
                                   ELSE s
                IN  IF confirmed.result = "false" THEN confirmed
                    ELSE ReadDirectory(PushLevel(confirmed, Val(tags.width)), more)

\* one iteration of the do-while loop on the current directory
LoopBody(s, has_osr, tags, assoc_ok, more) ==
  IF ~tags.tiled THEN ReadDirectory(s, more)
  ELSE IF ~Has(tags.width) THEN ReadDirectory(s, more)
  ELSE IF Has(FixedSlot(s.dir))
    THEN LET added == add_associated_image(s.associated_images, has_osr,
                                           FixedSlot(s.dir), tags, assoc_ok)
         IN  IF ~added.result
               THEN Fail(s, "associated " \o Val(FixedSlot(s.dir)))
               ELSE ReadDirectory([s EXCEPT !.associated_images = added.ht], more)
  ELSE ClassifyLevel(s, has_osr, tags, more)

\* values a read of levels[0] can give when the array is empty
GarbageDirs == {-1, 0}

\* levels[0]: <<v>> for a value read, <<>> when the read traps.  g_new of
\* zero elements gives NULL, so with level_count == 0 the read is undefined.
FirstLevel(levels) ==
  IF Len(levels) > 0 THEN { <<levels[1]>> }
  ELSE { <<>> } \cup { <<g>> : g \in GarbageDirs }

\* sort, copy the directories into levels, deleting the list
SortLevels(s) ==
  LET sorted == g_list_sort(s.level_list)
  IN  [s EXCEPT !.level_list = <<>>,
                !.levels = [i \in 1..s.level_count |-> sorted[i].directory]]

\* _openslide_add_tiff_ops(osr, tiff, levels[0], 0, NULL, level_count, levels, ...)
AddTiffOps(s, first) ==
  IF ~Has(first) THEN [s EXCEPT !.pc = "done", !.result = "crash"]
  ELSE [s EXCEPT !.pc = "done", !.result = "true",
                 !.handoff = << [base |-> Val(first),
                                 level_count |-> s.level_count,
                                 levels |-> s.levels] >>]

\* ------------------------------------------------------------ actions
Init ==
  /\ ifd \in [index : {0}, tags : DirTags]
  /\ run = [r \in Runs |-> InitRun]

\* _openslide_try_ventana is entered: the file is at its first directory
Call(r) ==
  /\ run[r].pc = "entry"
  /\ run' = [run EXCEPT ![r] = TryVentanaEntry(run[r], osr(r), ifd.tags)]
  /\ UNCHANGED ifd

\* every call that is in the loop processes the current directory and reads
\* the next one
WalkDirectory ==
  /\ \A r \in Runs : run[r].pc # "entry"
  /\ \E r \in Runs : run[r].pc = "walk"
  /\ \E assoc_ok \in BOOLEAN, more \in BOOLEAN :
       /\ more => ifd.index + 1 < MaxDirs
       /\ ~Has(FixedSlot(ifd.index)) => assoc_ok
       /\ LET after == [r \in Runs |->
                          IF run[r].pc = "walk"
                            THEN LoopBody(run[r], osr(r), ifd.tags, assoc_ok, more)
                            ELSE run[r]]
          IN  /\ run' = after
              /\ IF more /\ \E r \in Runs : after[r].pc = "walk"
                   THEN \E next \in DirTags :
                          ifd' = [index |-> ifd.index + 1, tags |-> next]
                   ELSE UNCHANGED ifd

\* the loop has ended: sort, copy and hand off to the TIFF backend
SortAndHandoff(r) ==
  /\ run[r].pc = "sort"
  /\ \E first \in FirstLevel(SortLevels(run[r]).levels) :
       run' = [run EXCEPT ![r] = AddTiffOps(SortLevels(run[r]), first)]
  /\ UNCHANGED ifd

Next ==
  \/ \E r \in Runs : Call(r)
  \/ WalkDirectory
  \/ \E r \in Runs : SortAndHandoff(r)

Spec == Init /\ [][Next]_vars

\* ------------------------------------------------------------ properties
\* key=value token of the description grammar: the key, "=", the value,
\* delimited by white space or the ends of the text
CarriesToken(d, key, value) ==
  LET tok == key \o <<"=">> \o value
  IN  \E i \in 1..Len(d) :
        /\ IsPrefixAt(d, tok, i)
        /\ (i = 1 \/ d[i - 1] \in WhiteSpace)
        /\ (i + Len(tok) - 1 = Len(d) \/ d[i + Len(tok)] \in WhiteSpace)

\* call r is about to process a directory that is a readable pyramid level
\* whose description carries level=0
AtLevel0(r) ==
  /\ run[r].pc = "walk"
  /\ ifd.index \notin {0, 1}
  /\ ifd.tags.tiled
  /\ Has(ifd.tags.width)
  /\ Has(ifd.tags.desc)
  /\ CarriesToken(Val(ifd.tags.desc), LevelKey, <<"0">>)
  /\ ifd.tags.compression = <<"supported">>

\* call r takes a step
Steps(r) == run'[r] # run[r]

Handed(r) == Has(run[r].handoff)
HandedLevels(r) == Val(run[r].handoff).levels
\* the width pushed with directory d
WidthOf(r, d) == (CHOOSE l \in run[r].accumulated : l.directory = d).width

\* C1: when the walk ends with zero accumulated levels, the call fails
\* with BadData and hands nothing to the backend.
C1_EmptyLevelsFailBadData ==
  [][\A r \in Runs :
       (run[r].pc = "sort" /\ run[r].level_count = 0 /\ Steps(r))
         => /\ run'[r].result = "false"
            /\ run'[r].err = "BAD_DATA"
            /\ run'[r].handoff = <<>>]_vars

C3_NoMarkerNotSupported ==
  [][\A r \in Runs :
       (/\ AtLevel0(r)
        /\ Steps(r)
        /\ (~Has(ifd.tags.xml) \/ ~Val(ifd.tags.xml).marker))
         => /\ run'[r].result = "false"
            /\ run'[r].err = "FORMAT_NOT_SUPPORTED"
            /\ run'[r].handoff = <<>>]_vars

\* C4: processing a level=0 directory whose metadata parses and holds zero
\* or several scan-info nodes fails the call with BadData.
C4_ScanInfoCountBadData ==
  [][\A r \in Runs :
       (/\ AtLevel0(r)
        /\ Steps(r)
        /\ Has(ifd.tags.xml)
        /\ Val(ifd.tags.xml).marker
        /\ Val(ifd.tags.xml).wellFormed
        /\ Len(Val(ifd.tags.xml).iScan) # 1)
         => /\ run'[r].result = "false"
            /\ run'[r].err = "BAD_DATA"]_vars

\* C5: once a call with a property sink has processed, without failing, the
\* level=0 directory whose single scan-info node carries Magnification=m and
\* ScanRes=r, the sink holds the vendor, ventana.magnification=m,
\* ventana.resolution=r, objective-power=m, mpp-x=r and mpp-y=r.
C5_PropertiesRecorded ==
  [][\A r \in Runs :
       (/\ osr(r)
        /\ AtLevel0(r)
        /\ Steps(r)
        /\ run'[r].result # "false"
        /\ Has(ifd.tags.xml)
        /\ Val(ifd.tags.xml).marker
        /\ Val(ifd.tags.xml).wellFormed
        /\ Len(Val(ifd.tags.xml).iScan) = 1
        /\ {"Magnification", "ScanRes"} \subseteq DOMAIN Val(ifd.tags.xml).iScan[1])
         => LET node == Val(ifd.tags.xml).iScan[1]
                props == run'[r].properties
                Holds(k, v) == k \in DOMAIN props /\ props[k] = v
            IN  /\ Holds("openslide.vendor", "ventana")
                /\ Holds("ventana.magnification", node["Magnification"])
                /\ Holds("ventana.resolution", node["ScanRes"])
                /\ Holds("openslide.objective-power", node["Magnification"])
                /\ Holds("openslide.mpp-x", node["ScanRes"])
                /\ Holds("openslide.mpp-y", node["ScanRes"])]_vars

\* C6: when the first directory is not tiled, the call fails with
\* FormatNotSupported, both sinks stay as they were, the call stays on
\* directory 0 and nothing is handed off.
C6_UntiledFirstDirectory ==
  \A r \in Runs :
    (ifd.index = 0 /\ ~ifd.tags.tiled /\ run[r].pc # "entry") =>
      /\ run[r].result = "false"
      /\ run[r].err = "FORMAT_NOT_SUPPORTED"
      /\ run[r].properties = EmptyMap
      /\ run[r].associated_images = {}
      /\ run[r].dir = 0
      /\ run[r].handoff = <<>>

\* the call with sinks has returned on an untiled first directory
C6_Witness ==
  /\ ifd.index = 0
  /\ ~ifd.tags.tiled
  /\ run["sinks"].pc = "done"

\* C7: directories 0 and 1 are never in the level list, the level array or
\* the handed-off array.
C7_SlotsNeverLevels ==
  \A r \in Runs :
    /\ \A i \in 1..Len(run[r].level_list) :
         run[r].level_list[i].directory \notin {0, 1}
    /\ \A l \in run[r].accumulated : l.directory \notin {0, 1}
    /\ \A i \in 1..Len(run[r].levels) : run[r].levels[i] \notin {0, 1}
    /\ Handed(r) =>
         \A i \in 1..Len(HandedLevels(r)) : HandedLevels(r)[i] \notin {0, 1}

\* directories 0 and 1 were registered as label and thumbnail, and levels
\* were handed off
C7_Witness ==
  /\ run["sinks"].associated_images = {"label", "thumbnail"}
  /\ Handed("sinks")
  /\ Len(HandedLevels("sinks")) >= 1

\* C8: when both calls have ended, the detection-only call has the outcome
\* and the level array of the call with sinks, and has inserted nothing.
C8_DetectionOnlyAgrees ==
  (\A r \in Runs : run[r].pc = "done") =>
    /\ run["detect"].result = run["sinks"].result
    /\ run["detect"].err = run["sinks"].err
    /\ run["detect"].levels = run["sinks"].levels
    /\ run["detect"].handoff = run["sinks"].handoff
    /\ run["detect"].properties = EmptyMap
    /\ run["detect"].associated_images = {}

\* C9: a call that hands levels to the backend has run the level-0 marker
\* check and the XML parse exactly once.
C9_ConfirmedExactlyOnce ==
  \A r \in Runs :
    (run[r].result = "true" /\ run[r].level_count > 0) =>
      /\ run[r].markerChecks = 1
      /\ run[r].xmlParses = 1

====
